---- MODULE Spec2Model ----
(***************************************************************************)
(* Historical-weather caching and resilience subsystem of the weather      *)
(* dashboard: the two-tier cache manager (memory maps over an IndexedDB    *)
(* database), the process-wide singleton, the React hook that wraps a      *)
(* fetch function with the cache, and the retry engine.                    *)
(*                                                                         *)
(* JavaScript runs one task at a time: every action below is one           *)
(* synchronous section of the code (a call up to its first pending await,  *)
(* or one event callback together with the microtasks it releases).        *)
(***************************************************************************)
EXTENDS Integers, Sequences, FiniteSets, TLC

VARIABLES
    now,        \* wall clock (new Date()), in hours
    hasWindow,  \* typeof window !== 'undefined'
    tz,         \* the time zone of the environment: local time is UTC before
                \* tz.at and UTC + tz.shift hours from then on
    db,         \* HistoricalWeatherCacheManager.db: "null", or a handle that
                \* is "open" or "closed"
    connAlive,  \* the IDBDatabase connection still accepts transaction()
    mem,        \* the two memory maps: memoryCache, analyticsMemoryCache
    idb,        \* the object stores of WeatherHistoryDB, by store name
    queue,      \* IndexedDB requests issued and not yet completed, oldest first
    calls,      \* per caller: the operation in flight and its result
    fresh,      \* history: per kind and key, the latest set and whether the
                \* key has been left alone since that set was issued
    cacheManagerInstance,  \* the module-level singleton: 0 (null) or a manager id
    nManagers,  \* history: managers constructed so far
    nOpens,     \* history: indexedDB.open calls so far
    gcm,        \* per client: its getCacheManager() call and what it resolved to
    hook,       \* the state of the mounted useHistoricalWeatherCache hook
    apiCacheManager,  \* CachedHistoricalWeatherAPI.cacheManager: 0 (null) or a manager id
    retry,      \* the withRetry call: its loop variables and what it has done
    nOps,       \* history: operations issued so far
    kindInUse,  \* the kind of record this session's clients work with
    trace,      \* history: the latest operation issued on the manager
    applied     \* the latest application of a pure function: what to what

(***************************************************************************)
(* Bounds of the model.                                                    *)
(***************************************************************************)
MaxTime == 36
TickHours == 12
MaxQueue == 2
MaxOps == 4
MaxFetches == 2
MaxAdminOps == 3

(***************************************************************************)
(* Program constants.                                                      *)
(***************************************************************************)
CACHE_EXPIRY_HOURS == 24
ANALYTICS_EXPIRY_HOURS == 6
HISTORICAL_STORE == "historical_weather"
ANALYTICS_STORE == "weather_analytics"

Callers == {1, 2}
Kinds == {"historical", "analytics"}
Payloads == {"v1", "v2"}

(***************************************************************************)
(* Keys.  Coordinates are in units of 1e-6 degree, dates in hours since    *)
(* the epoch (UTC).                                                        *)
(***************************************************************************)
\* Number.prototype.toFixed(4): the sign of the number, then the multiple of
\* 1e-4 nearest to its magnitude (the larger of two equally near).  The sign
\* is kept when the digits are all zero: (-0.00001).toFixed(4) is "-0.0000".
ToFixed4(x) ==
    [neg |-> x < 0, n |-> ((IF x < 0 THEN -x ELSE x) + 50) \div 100]

\* date.toISOString().split('T')[0]: the UTC calendar day.
DateStr(date) == date \div 24

generateHistoricalKey(lat, lon, date) ==
    <<ToFixed4(lat), ToFixed4(lon), DateStr(date)>>

generateAnalyticsKey(locationId, analysisType, timeRange) ==
    <<locationId, analysisType, timeRange>>

HistoricalInputs ==
    { [lat |-> 40712800, lon |-> -74006000, date |-> 468000],
      [lat |-> 40712801, lon |-> -74006002, date |-> 468013] }

AnalyticsInputs ==
    { [locationId |-> "nyc", analysisType |-> "trends", timeRange |-> "7d"] }

KeyOf(kind, input) ==
    IF kind = "historical"
    THEN generateHistoricalKey(input.lat, input.lon, input.date)
    ELSE generateAnalyticsKey(input.locationId, input.analysisType, input.timeRange)

InputsOf(kind) == IF kind = "historical" THEN HistoricalInputs ELSE AnalyticsInputs

KeysOf(kind) == { KeyOf(kind, i) : i \in InputsOf(kind) }

MapOf(kind) == IF kind = "historical" THEN "memoryCache" ELSE "analyticsMemoryCache"

StoreOf(kind) == IF kind = "historical" THEN HISTORICAL_STORE ELSE ANALYTICS_STORE

ExpiryHours(kind) ==
    IF kind = "historical" THEN CACHE_EXPIRY_HOURS ELSE ANALYTICS_EXPIRY_HOURS

(***************************************************************************)
(* Maps (Map<string, entry> and an object store): functions on the keys    *)
(* present.                                                                *)
(***************************************************************************)
EmptyMap == <<>>

Has(m, k) == k \in DOMAIN m

MapSet(m, k, e) == [x \in DOMAIN m \cup {k} |-> IF x = k THEN e ELSE m[x]]

MapDelete(m, k) == [x \in DOMAIN m \ {k} |-> m[x]]

Size(m) == Cardinality(DOMAIN m)

\* Mutant: the comparison of isExpired reversed.
isExpiredReversed(expiresAt) == expiresAt > now

\* isExpired(expiresAt): new Date() > expiresAt
isExpired(expiresAt) == now > expiresAt

\* The offset of local time from UTC at the time t.
LocalOffset(t) == IF t >= tz.at THEN tz.shift ELSE 0

\* date.setHours(date.getHours() + hours) on a date that holds the time t:
\* the hours are added to the local time, and the local time that results
\* is read with the offset in force at it; a local time that a transition
\* repeats or skips is read with the offset before the transition.
SetHours(t, hours) ==
    LET local == t + LocalOffset(t) + hours
    IN  IF local < tz.at THEN local
        ELSE IF local - tz.shift >= tz.at THEN local - tz.shift
        ELSE local

\* The cache entry a set builds: the payload, the write time and the expiry,
\* expiresAt.setHours(expiresAt.getHours() + CACHE_EXPIRY_HOURS).
CacheEntry(kind, data) ==
    [data |-> data, cachedAt |-> now, expiresAt |-> SetHours(now, ExpiryHours(kind))]

(***************************************************************************)
(* Results of an operation as its caller sees them.                        *)
(***************************************************************************)
NoRes == [t |-> "none", v |-> "-", stale |-> FALSE]
NullRes == [t |-> "null", v |-> "-", stale |-> FALSE]
VoidRes == [t |-> "void", v |-> "-", stale |-> FALSE]
ErrRes(what) == [t |-> "error", v |-> what, stale |-> FALSE]
Value(v) == [t |-> "value", v |-> v, stale |-> FALSE]
StatsRes == [t |-> "stats", v |-> "-", stale |-> FALSE]
\* The payload of the entry e, served now.  History: stale records that the
\* entry's expiresAt was earlier than the time it was served at.
Served(e) == [t |-> "value", v |-> e.data, stale |-> e.expiresAt < now]

NoKey == <<>>
NoExpect == [data |-> "-", outcome |-> "-", durable |-> FALSE]

\* A caller's call.  History: expect, sawExpired, putFailed, and for a
\* fetchWithCache call nFetch, nGet, nSet (invocations of fetchFunction, of the
\* cache get and of the cache set), uninit (isInitialized was false), getThrew
\* (the manager's get rejected), setFailed (the hook's set rejected), fetched (what the latest fetchFunction
\* invocation returned) and fetchFailed (an invocation rejected).  counts is
\* the historicalCount and analyticsCount of the stats a getCacheStats call
\* resolves to.
Idle ==
    [pc |-> "idle", op |-> "none", kind |-> "historical", key |-> NoKey,
     data |-> "-", res |-> NoRes, expect |-> NoExpect, sawExpired |-> "none",
     putFailed |-> FALSE, nFetch |-> 0, nGet |-> 0, nSet |-> 0, uninit |-> FALSE,
     getThrew |-> FALSE, setFailed |-> FALSE, fetched |-> "-", fetchFailed |-> FALSE,
     counts |-> <<0, 0>>]

NoFresh ==
    [data |-> "-", expiresAt |-> 0, outcome |-> "none", by |-> 0, durable |-> FALSE,
     displaced |-> FALSE]

managerVars == <<db, connAlive, mem, idb, queue, fresh>>
singletonVars == <<cacheManagerInstance, nManagers, nOpens, gcm>>
vars == <<now, hasWindow, tz, apiCacheManager, managerVars, calls, singletonVars, hook, retry, applied, nOps,
         kindInUse, trace>>

(***************************************************************************)
(* IndexedDB.  Requests complete in the order they were issued within one  *)
(* object store; requests on different stores are not ordered.             *)
(***************************************************************************)
Request(type, kind, key, entry, caller) ==
    [type |-> type, kind |-> kind, key |-> key, entry |-> entry, caller |-> caller]

NoEntry == [data |-> "-", cachedAt |-> 0, expiresAt |-> 0]

RemoveAt(q, i) == SubSeq(q, 1, i - 1) \o SubSeq(q, i + 1, Len(q))

Ready(i) ==
    /\ i \in 1..Len(queue)
    /\ \A j \in 1..(i - 1) : queue[j].kind # queue[i].kind

FreshKeys == UNION { { <<kind, key>> : key \in KeysOf(kind) } : kind \in Kinds }

\* History: another operation has written or removed the key.
Touch(f, kind, key) == [f EXCEPT ![<<kind, key>>] = NoFresh]

\* History: the callback of a get that was in flight has overwritten or
\* removed the entry of the key.
Displace(f, kind, key) ==
    IF f[<<kind, key>>].outcome = "none" THEN f
    ELSE [f EXCEPT ![<<kind, key>>].displaced = TRUE]

\* History: the set issued by caller c has completed with the given outcome.
Settle(f, kind, key, c, outcome) ==
    IF f[<<kind, key>>].by = c /\ f[<<kind, key>>].outcome = "pending"
    THEN [f EXCEPT ![<<kind, key>>].outcome = outcome]
    ELSE f

\* History: what a get issued now must return if the claimed laws hold.
Expectation(fr, kind, key) ==
    LET f == fr[<<kind, key>>] IN
    IF f.outcome \in {"ok", "failed"} /\ ~f.displaced /\ now <= f.expiresAt
    THEN [data |-> f.data, outcome |-> f.outcome, durable |-> f.durable]
    ELSE NoExpect

(***************************************************************************)
(* A synchronous section works on the part of the state it may change:     *)
(* the memory maps, the request queue, the history and the caller's call.  *)
(***************************************************************************)
St(c) == [mem |-> mem, queue |-> queue, fresh |-> fresh,
          call |-> IF c \in Callers THEN calls[c] ELSE Idle]

Commit(c, S) ==
    /\ mem' = S.mem
    /\ queue' = S.queue
    /\ fresh' = S.fresh
    /\ calls' = IF c \in Callers THEN [calls EXCEPT ![c] = S.call] ELSE calls

Free(c) == calls[c].pc \in {"idle", "done"}

Begin(op, kind, key, data) ==
    [Idle EXCEPT !.op = op, !.kind = kind, !.key = key, !.data = data]

Done(S, r) == [S EXCEPT !.call.pc = "done", !.call.res = r]

Await(S, pc, req) == [S EXCEPT !.call.pc = pc, !.queue = Append(@, req)]

\* this.db!.transaction(...) on a handle that was closed or whose connection
\* is gone throws.
TransactionThrows == db = "closed" \/ (db = "open" /\ ~connAlive)

(***************************************************************************)
(* removeHistoricalWeather / removeAnalytics, up to the request it issues. *)
(* caller 0: the floating call a get makes for an expired durable entry.   *)
(***************************************************************************)
RemoveEffect(S, kind, key, caller) ==
    LET S1 == [S EXCEPT !.mem[MapOf(kind)] = MapDelete(@, key),
                        !.fresh = IF caller = 0 THEN Displace(@, kind, key)
                                  ELSE Touch(@, kind, key)]
    IN  IF db = "null" \/ TransactionThrows
        THEN S1
        ELSE [S1 EXCEPT !.queue = Append(@, Request("delete", kind, key, NoEntry, caller))]

RemoveStart(S, c, kind, key) ==
    LET S1 == RemoveEffect(S, kind, key, c)
    IN  IF db = "null" THEN Done(S1, VoidRes)
        ELSE IF TransactionThrows THEN Done(S1, ErrRes("InvalidStateError"))
        ELSE [S1 EXCEPT !.call.pc = "del"]

(***************************************************************************)
(* What the caller does with the result of a manager operation: a direct   *)
(* client takes it as it is; fetchWithCache / fetchAnalyticsWithCache of   *)
(* useCachedHistoricalWeather goes on through the hook's wrappers.         *)
(***************************************************************************)
IsFetch(S) == S.call.op = "fetchWithCache"

\* A call of CachedHistoricalWeatherAPI.getHistoricalWeather / getAnalytics.
IsApi(S) == S.call.op = "CachedHistoricalWeatherAPI"

\* fetchFunction() is invoked and awaited.
InvokeFetch(S, pc) == [S EXCEPT !.call.pc = pc, !.call.nFetch = @ + 1]

\* The catch block of fetchWithCache: return await fetchFunction().
Fallback(S) == InvokeFetch(S, "fetch2")

\* cacheManager.getCacheStats(), awaited by the hook's set after the write;
\* then fetchWithCache returns the data it fetched.
StatsStart(S, c) ==
    IF db = "null" THEN Done(S, Value(S.call.data))
    ELSE IF TransactionThrows THEN Fallback(S)
    ELSE Await(S, "stats", Request("count", S.call.kind, NoKey, NoEntry, c))

OnRemoveResult(S, r) == Done(S, r)

\* The hook's set rethrows a failure of the manager's set.
\* CachedHistoricalWeatherAPI awaits the manager's set: a failure of the set
\* is the failure of the call, else the data is returned.
OnSetResult(S, c, r) ==
    IF IsApi(S)
    THEN IF r.t = "error" THEN Done([S EXCEPT !.call.setFailed = TRUE], r)
         ELSE Done(S, Value(S.call.data))
    ELSE IF ~IsFetch(S) THEN Done(S, r)
    ELSE IF r.t = "error" THEN Fallback([S EXCEPT !.call.setFailed = TRUE])
    ELSE StatsStart(S, c)

\* Mutant: a fetchWithCache that fetches whatever the cache returned.
OnGetResultAlwaysFetch(S, r) ==
    IF ~IsFetch(S) THEN Done(S, r)
    ELSE InvokeFetch([S EXCEPT !.call.getThrew = (r.t = "error")], "fetch")

\* Mutant: a fetchWithCache that fails when the cache get fails.
OnGetResultFailClosed(S, r) ==
    IF ~IsFetch(S) THEN Done(S, r)
    ELSE IF r.t = "value" THEN Done(S, r)
    ELSE IF r.t = "error" THEN Done([S EXCEPT !.call.getThrew = TRUE], r)
    ELSE InvokeFetch(S, "fetch")

\* The hook's get turns a failure of the manager's get into null; a cached
\* value is returned, anything else makes fetchWithCache fetch.
\* CachedHistoricalWeatherAPI awaits the manager's get: a failure of the get
\* is the failure of the call, a cached value is returned, null makes it
\* call the fetch function.
OnGetResult(S, r) ==
    IF IsApi(S)
    THEN IF r.t = "error" THEN Done([S EXCEPT !.call.getThrew = TRUE], r)
         ELSE IF r.t = "value" THEN Done(S, r)
         ELSE InvokeFetch(S, "fetch")
    ELSE IF ~IsFetch(S) THEN Done(S, r)
    ELSE IF r.t = "value" THEN Done(S, r)
    ELSE InvokeFetch([S EXCEPT !.call.getThrew = (r.t = "error")], "fetch")

\* Mutant: a set that writes the durable store only, not the memory map.
SetStartNoMemory(S, c, kind, key, data) ==
    LET cacheEntry == CacheEntry(kind, data)
        outcome == IF db = "null" THEN "ok"
                   ELSE IF TransactionThrows THEN "failed" ELSE "pending"
        S1 == [S EXCEPT
                 !.fresh[<<kind, key>>] =
                     [data |-> data, expiresAt |-> cacheEntry.expiresAt,
                      outcome |-> outcome, by |-> c, durable |-> db = "open",
                      displaced |-> FALSE]]
    IN  IF db = "null" THEN OnSetResult(S1, c, VoidRes)
        ELSE IF TransactionThrows THEN OnSetResult(S1, c, ErrRes("InvalidStateError"))
        ELSE Await(S1, "put", Request("put", kind, key, cacheEntry, c))

(***************************************************************************)
(* setHistoricalWeather / setAnalytics, up to the put request.             *)
(***************************************************************************)
SetStart(S, c, kind, key, data) ==
    LET cacheEntry == CacheEntry(kind, data)
        outcome == IF db = "null" THEN "ok"
                   ELSE IF TransactionThrows THEN "failed" ELSE "pending"
        S1 == [S EXCEPT
                 !.mem[MapOf(kind)] = MapSet(@, key, cacheEntry),
                 !.fresh[<<kind, key>>] =
                     [data |-> data, expiresAt |-> cacheEntry.expiresAt,
                      outcome |-> outcome, by |-> c, durable |-> db = "open",
                      displaced |-> FALSE]]
    IN  IF db = "null" THEN OnSetResult(S1, c, VoidRes)
        ELSE IF TransactionThrows THEN OnSetResult(S1, c, ErrRes("InvalidStateError"))
        ELSE Await(S1, "put", Request("put", kind, key, cacheEntry, c))

(***************************************************************************)
(* getHistoricalWeather / getAnalytics, up to the get request.             *)
(***************************************************************************)
GetStart(S, c, kind, key) ==
    LET m == S.mem[MapOf(kind)]
        memoryData == Has(m, key)
        S1 == [S EXCEPT !.call.expect = Expectation(S.fresh, kind, key),
                        !.call.sawExpired =
                            IF memoryData /\ isExpired(m[key].expiresAt)
                            THEN "memory" ELSE "none"]
    IN  IF memoryData /\ ~isExpired(m[key].expiresAt)
        THEN OnGetResult(S1, Served(m[key]))
        ELSE IF db = "null" THEN OnGetResult(S1, NullRes)
        ELSE IF TransactionThrows THEN OnGetResult(S1, ErrRes("InvalidStateError"))
        ELSE Await(S1, "get", Request("get", kind, key, NoEntry, c))

(***************************************************************************)
(* The manager's operations as a client calls them.                        *)
(***************************************************************************)
otherVars == <<now, hasWindow, tz, apiCacheManager, db, connAlive, singletonVars, hook, retry, applied>>

envVars == <<otherVars, nOps, kindInUse, trace>>

\* History of the calls made on the manager, kept where a property speaks of
\* an operation that ran with nothing else in flight and nothing after it:
\* who made the latest call, at what time, and whether any request was
\* pending when it was made.
\* alone: no request and no indexedDB.open was pending when the latest call
\* was made.  closes: the calls of close() since the latest indexedDB.open
\* that succeeded, up to 2.  clears: how many of the calls just before the latest
\* one were calls of clearAllCache that ran alone and had resolved, up to 2.
NoTrace ==
    [on |-> FALSE, last |-> 0, alone |-> FALSE, at |-> 0, closes |-> 0, clears |-> 0]

\* The latest call was a clearAllCache that ran alone and has resolved.
Cleared ==
    /\ trace.last \in Callers
    /\ trace.alone
    /\ queue = <<>>
    /\ calls[trace.last].op = "clearAllCache"
    /\ calls[trace.last].res.t = "void"

\* The operations of a session: fewer where its history is kept.
OpsLimit == IF trace.on THEN MaxAdminOps ELSE MaxOps

Traced(c) ==
    IF trace.on
    THEN [trace EXCEPT !.last = c, !.at = now,
                       !.alone = /\ queue = <<>>
                                 /\ \A cl \in DOMAIN gcm : gcm[cl].pc # "init",
                       !.clears = IF Cleared THEN (IF @ = 0 THEN 1 ELSE 2) ELSE 0]
    ELSE trace

Call(c, S) ==
    /\ Free(c)
    /\ nOps < (IF IsFetch(S) THEN MaxFetches ELSE OpsLimit)
    /\ nOps' = nOps + 1
    /\ Len(S.queue) <= MaxQueue
    /\ S.call.kind = kindInUse
    /\ Commit(c, S)
    /\ trace' = Traced(c)
    /\ UNCHANGED <<idb, otherVars, kindInUse>>

Get(c, kind, input) ==
    LET key == KeyOf(kind, input)
    IN  Call(c, GetStart([St(c) EXCEPT !.call = Begin("get", kind, key, "-")],
                         c, kind, key))

Set(c, kind, input, data) ==
    LET key == KeyOf(kind, input)
    IN  Call(c, SetStart([St(c) EXCEPT !.call = Begin("set", kind, key, data)],
                         c, kind, key, data))

Remove(c, kind, input) ==
    LET key == KeyOf(kind, input)
    IN  Call(c, RemoveStart([St(c) EXCEPT !.call = Begin("remove", kind, key, "-")],
                            c, kind, key))

getHistoricalWeather(c, input) == Get(c, "historical", input)

getAnalytics(c, input) == Get(c, "analytics", input)

setHistoricalWeather(c, input, data) == Set(c, "historical", input, data)

setAnalytics(c, input, data) == Set(c, "analytics", input, data)

removeHistoricalWeather(c, input) == Remove(c, "historical", input)

removeAnalytics(c, input) == Remove(c, "analytics", input)

(***************************************************************************)
(* The callbacks of the IndexedDB requests.                                *)
(***************************************************************************)
Pop(c, i) == [St(c) EXCEPT !.queue = RemoveAt(queue, i)]

\* request.onsuccess of a get: serve a live entry and copy it to memory;
\* remove an expired one; resolve null otherwise.
getOnSuccess(i) ==
    /\ Ready(i)
    /\ connAlive
    /\ queue[i].type = "get"
    /\ LET r == queue[i]
           c == r.caller
           store == idb[StoreOf(r.kind)]
           cached == Has(store, r.key)
           live == cached /\ ~isExpired(store[r.key].expiresAt)
           S0 == IF cached /\ ~live
                 THEN [Pop(c, i) EXCEPT !.call.sawExpired =
                          IF @ = "memory" THEN "both" ELSE "durable"]
                 ELSE Pop(c, i)
           S1 == IF live
                 THEN [S0 EXCEPT !.mem[MapOf(r.kind)] = MapSet(@, r.key, store[r.key]),
                                 !.fresh = Displace(@, r.kind, r.key)]
                 ELSE IF cached THEN RemoveEffect(S0, r.kind, r.key, 0)
                 ELSE S0
       IN  Commit(c, OnGetResult(S1, IF live THEN Served(store[r.key]) ELSE NullRes))
    /\ UNCHANGED <<idb, envVars>>

\* request.onerror of a get: resolve(null).
getOnError(i) ==
    /\ Ready(i)
    /\ queue[i].type = "get"
    /\ Commit(queue[i].caller, OnGetResult(Pop(queue[i].caller, i), NullRes))
    /\ UNCHANGED <<idb, envVars>>

\* request.onsuccess of a put: the entry is stored; resolve().
putOnSuccess(i) ==
    /\ Ready(i)
    /\ connAlive
    /\ queue[i].type = "put"
    /\ LET r == queue[i]
           c == r.caller
           S0 == [Pop(c, i) EXCEPT !.fresh = Settle(@, r.kind, r.key, c, "ok")]
       IN  /\ idb' = [idb EXCEPT ![StoreOf(r.kind)] = MapSet(@, r.key, r.entry)]
           /\ Commit(c, OnSetResult(S0, c, VoidRes))
    /\ UNCHANGED envVars

\* Mutant: a failed put that takes the entry out of the memory map again.
putOnErrorRollback(i) ==
    /\ Ready(i)
    /\ queue[i].type = "put"
    /\ LET r == queue[i]
           c == r.caller
           S0 == [Pop(c, i) EXCEPT !.fresh = Settle(@, r.kind, r.key, c, "failed"),
                                   !.mem[MapOf(r.kind)] = MapDelete(@, r.key),
                                   !.call.putFailed = TRUE]
       IN  Commit(c, OnSetResult(S0, c, ErrRes("request.error")))
    /\ UNCHANGED <<idb, envVars>>

\* request.onerror of a put: nothing is stored; reject(request.error).
putOnError(i) ==
    /\ Ready(i)
    /\ queue[i].type = "put"
    /\ LET r == queue[i]
           c == r.caller
           S0 == [Pop(c, i) EXCEPT !.fresh = Settle(@, r.kind, r.key, c, "failed"),
                                   !.call.putFailed = TRUE]
       IN  Commit(c, OnSetResult(S0, c, ErrRes("request.error")))
    /\ UNCHANGED <<idb, envVars>>

\* request.onsuccess of a delete: the key is gone from the store; resolve().
deleteOnSuccess(i) ==
    /\ Ready(i)
    /\ connAlive
    /\ queue[i].type = "delete"
    /\ LET r == queue[i]
           c == r.caller
       IN  /\ idb' = [idb EXCEPT ![StoreOf(r.kind)] = MapDelete(@, r.key)]
           /\ Commit(c, IF c \in Callers THEN OnRemoveResult(Pop(c, i), VoidRes)
                                         ELSE Pop(c, i))
    /\ UNCHANGED envVars

\* request.onerror of a delete: the store keeps the key; resolve().
deleteOnError(i) ==
    /\ Ready(i)
    /\ queue[i].type = "delete"
    /\ LET c == queue[i].caller
       IN  Commit(c, IF c \in Callers THEN OnRemoveResult(Pop(c, i), VoidRes)
                                     ELSE Pop(c, i))
    /\ UNCHANGED <<idb, envVars>>

\* request.onsuccess of the count requests of getCacheStats: the stats are
\* resolved; the hook's set returns and fetchWithCache returns its data.
countOnSuccess(i) ==
    /\ Ready(i)
    /\ connAlive
    /\ queue[i].type = "count"
    /\ LET c == queue[i].caller
       IN  Commit(c, IF c \notin Callers THEN Pop(c, i)
                     ELSE IF calls[c].op = "getCacheStats"
                     THEN Done([Pop(c, i) EXCEPT !.call.counts =
                                   <<Size(idb[HISTORICAL_STORE]), Size(idb[ANALYTICS_STORE])>>],
                               StatsRes)
                     ELSE Done(Pop(c, i), Value(calls[c].data)))
    /\ UNCHANGED <<idb, envVars>>

\* A count request that fails: getCacheStats has no onerror handler, its
\* promise is never settled.
countOnError(i) ==
    /\ Ready(i)
    /\ queue[i].type = "count"
    /\ LET c == queue[i].caller
       IN  Commit(c, IF c \in Callers THEN [Pop(c, i) EXCEPT !.call.pc = "hung"]
                                     ELSE Pop(c, i))
    /\ UNCHANGED <<idb, envVars>>

(***************************************************************************)
(* fetchWithCache / fetchAnalyticsWithCache and the fetch function.        *)
(***************************************************************************)
\* Mutant: a fetchWithCache that waits for the cache to be initialized.
FetchStartBlocking(S, c, kind, key) ==
    IF ~hook.isInitialized
    THEN [S EXCEPT !.call.uninit = TRUE, !.call.pc = "waitInit"]
    ELSE IF hook.cacheManager = 0 THEN Fallback(S)
    ELSE GetStart([S EXCEPT !.call.nGet = @ + 1], c, kind, key)

\* Up to the first await: the direct fetch while the cache is not
\* initialized, the hook's get otherwise.
FetchStart(S, c, kind, key) ==
    IF ~hook.isInitialized
    THEN InvokeFetch([S EXCEPT !.call.uninit = TRUE], "direct")
    ELSE IF hook.cacheManager = 0 THEN Fallback(S)
    ELSE GetStart([S EXCEPT !.call.nGet = @ + 1], c, kind, key)

FetchWithCache(c, kind, input) ==
    LET key == KeyOf(kind, input)
    IN  /\ hook.isMounted
        /\ Call(c, FetchStart([St(c) EXCEPT !.call = Begin("fetchWithCache", kind, key, "-")],
                              c, kind, key))

fetchWithCache(c, input) == FetchWithCache(c, "historical", input)

fetchAnalyticsWithCache(c, input) == FetchWithCache(c, "analytics", input)

Fetching(c) ==
    calls[c].op = "fetchWithCache" /\ calls[c].pc \in {"direct", "fetch", "fetch2"}

\* fetchFunction() resolves with v: the direct and the fallback fetch return
\* it; the fetch after a miss hands it to the hook's set first.
FetchReturns(c, v) ==
    /\ Fetching(c)
    /\ LET S0 == [St(c) EXCEPT !.call.fetched = v]
       IN  Commit(c, IF calls[c].pc = "fetch"
                     THEN IF hook.cacheManager = 0 THEN Fallback(S0)
                          ELSE SetStart([S0 EXCEPT !.call.data = v, !.call.nSet = @ + 1],
                                        c, calls[c].kind, calls[c].key, v)
                     ELSE Done(S0, Value(v)))
    /\ UNCHANGED <<idb, envVars>>

\* fetchFunction() rejects: inside the try block the catch block fetches
\* again; the direct and the fallback fetch make fetchWithCache reject.
FetchFails(c) ==
    /\ Fetching(c)
    /\ LET S0 == [St(c) EXCEPT !.call.fetchFailed = TRUE]
       IN  Commit(c, IF calls[c].pc = "fetch" THEN Fallback(S0)
                     ELSE Done(S0, ErrRes("fetchFunction")))
    /\ UNCHANGED <<idb, envVars>>

(***************************************************************************)
(* The environment: time passes; the browser drops the connection.         *)
(***************************************************************************)
Tick ==
    /\ now + TickHours <= MaxTime
    /\ now' = now + TickHours
    /\ UNCHANGED <<hasWindow, tz, apiCacheManager, managerVars, calls, singletonVars, hook, retry, applied, nOps,
                   kindInUse, trace>>

ConnectionLost ==
    /\ db = "open"
    /\ connAlive
    /\ connAlive' = FALSE
    /\ UNCHANGED <<now, hasWindow, tz, apiCacheManager, db, mem, idb, queue, fresh, calls, singletonVars,
                   hook, retry, applied, nOps, kindInUse, trace>>

(***************************************************************************)
(* getCacheManager() and initialize(); the mount effect of the hook.       *)
(***************************************************************************)
Clients == {"hook", "a", "b", "c"}

NoCall == [pc |-> "idle", got |-> 0, early |-> FALSE]

Initializing == \E cl \in Clients : gcm[cl].pc = "init"

\* Mutant: a getCacheManager that assigns the singleton after the await.
GetCacheManagerLate(cl) ==
    IF cacheManagerInstance = 0
    THEN /\ nManagers' = nManagers + 1
         /\ IF hasWindow
            THEN /\ nOpens' = nOpens + 1
                 /\ cacheManagerInstance' = cacheManagerInstance
                 /\ gcm' = [gcm EXCEPT ![cl] = [pc |-> "init", got |-> 0, early |-> FALSE]]
            ELSE /\ nOpens' = nOpens
                 /\ cacheManagerInstance' = nManagers + 1
                 /\ gcm' = [gcm EXCEPT ![cl] =
                              [pc |-> "done", got |-> nManagers + 1, early |-> FALSE]]
    ELSE /\ UNCHANGED <<cacheManagerInstance, nManagers, nOpens>>
         /\ gcm' = [gcm EXCEPT ![cl] =
                      [pc |-> "done", got |-> cacheManagerInstance, early |-> Initializing]]

\* getCacheManager(), up to its first pending await.  With no window
\* initialize() returns at once; in a browser it issues indexedDB.open.
\* History: early records that the call was made during an initialization.
GetCacheManager(cl) ==
    IF cacheManagerInstance = 0
    THEN /\ cacheManagerInstance' = nManagers + 1
         /\ nManagers' = nManagers + 1
         /\ IF hasWindow
            THEN /\ nOpens' = nOpens + 1
                 /\ gcm' = [gcm EXCEPT ![cl] = [pc |-> "init", got |-> 0, early |-> FALSE]]
            ELSE /\ nOpens' = nOpens
                 /\ gcm' = [gcm EXCEPT ![cl] =
                              [pc |-> "done", got |-> nManagers + 1, early |-> FALSE]]
    ELSE /\ UNCHANGED <<cacheManagerInstance, nManagers, nOpens>>
         /\ gcm' = [gcm EXCEPT ![cl] =
                      [pc |-> "done", got |-> cacheManagerInstance, early |-> Initializing]]

getCacheManager(cl) ==
    /\ cl # "hook"
    /\ gcm[cl].pc # "init"
    /\ nOps < OpsLimit
    /\ nOps' = nOps + 1
    /\ GetCacheManager(cl)
    /\ UNCHANGED <<now, hasWindow, tz, apiCacheManager, managerVars, calls, hook, retry, applied, kindInUse, trace>>

Unmounted == [isMounted |-> FALSE, cacheManager |-> 0, isInitialized |-> FALSE, error |-> FALSE]

\* initializeCache() of the hook after `await getCacheManager()`.
HookInitialized(h, manager) ==
    IF h.isMounted
    THEN [h EXCEPT !.cacheManager = manager, !.isInitialized = TRUE, !.error = FALSE]
    ELSE h

\* The catch block of initializeCache().
HookFailed(h) == IF h.isMounted THEN [h EXCEPT !.error = TRUE] ELSE h

\* The first render of useHistoricalWeatherCache and its mount effect.
useHistoricalWeatherCache ==
    /\ ~hook.isMounted
    /\ gcm["hook"].pc = "idle"
    /\ GetCacheManager("hook")
    /\ hook' = IF cacheManagerInstance = 0 /\ hasWindow
               THEN [hook EXCEPT !.isMounted = TRUE]
               ELSE HookInitialized([hook EXCEPT !.isMounted = TRUE],
                                    IF cacheManagerInstance = 0 THEN nManagers + 1
                                    ELSE cacheManagerInstance)
    /\ queue' = IF cacheManagerInstance # 0 /\ db = "open" /\ connAlive
                THEN Append(queue, Request("count", kindInUse, NoKey, NoEntry, 0))
                ELSE queue
    /\ UNCHANGED <<now, hasWindow, tz, apiCacheManager, db, connAlive, mem, idb, fresh, calls, retry, applied, nOps,
                   kindInUse, trace>>

\* The component that uses the hook unmounts: the cleanup of the mount
\* effect clears isMounted, the cleanup of the second effect closes the
\* manager the hook holds.
unmount ==
    /\ hook.isMounted
    /\ hook' = Unmounted
    /\ db' = IF hook.cacheManager # 0 THEN "null" ELSE db
    /\ UNCHANGED <<now, hasWindow, tz, apiCacheManager, connAlive, mem, idb, queue, fresh,
                   calls, singletonVars, retry, applied, nOps, kindInUse, trace>>

\* request.onsuccess of indexedDB.open: this.db = request.result; resolve().
\* The hook then publishes the manager and asks for the cache stats.
openOnSuccess(cl) ==
    /\ gcm[cl].pc = "init"
    /\ db' = "open"
    /\ gcm' = [gcm EXCEPT ![cl] = [pc |-> "done", got |-> cacheManagerInstance,
                                   early |-> FALSE]]
    /\ hook' = IF cl = "hook" THEN HookInitialized(hook, cacheManagerInstance) ELSE hook
    /\ queue' = IF cl = "hook" /\ hook.isMounted /\ connAlive
                THEN Append(queue, Request("count", kindInUse, NoKey, NoEntry, 0))
                ELSE queue
    /\ trace' = [trace EXCEPT !.closes = 0]
    /\ UNCHANGED <<now, hasWindow, tz, apiCacheManager, connAlive, mem, idb, fresh, calls,
                   cacheManagerInstance, nManagers, nOpens, retry, applied, nOps,
                   kindInUse>>

\* request.onerror of indexedDB.open: reject(request.error).
openOnError(cl) ==
    /\ gcm[cl].pc = "init"
    /\ gcm' = [gcm EXCEPT ![cl] = [pc |-> "failed", got |-> 0, early |-> FALSE]]
    /\ hook' = IF cl = "hook" THEN HookFailed(hook) ELSE hook
    /\ UNCHANGED <<now, hasWindow, tz, apiCacheManager, managerVars, calls,
                   cacheManagerInstance, nManagers, nOpens, retry, applied, nOps,
                   kindInUse, trace>>

(***************************************************************************)
(* CachedHistoricalWeatherAPI: the static wrapper.  A call made while its  *)
(* cacheManager field is null awaits getCacheManager() first, which for    *)
(* the first caller of all awaits initialize(); then it awaits the         *)
(* manager's get, on a miss the fetch function, and then the manager's set.*)
(***************************************************************************)
\* The manager's get called in the task in which indexedDB.open succeeded:
\* this.db is the handle just opened.
GetStartOpened(S, c, kind, key) ==
    LET m == S.mem[MapOf(kind)]
        memoryData == Has(m, key)
        S1 == [S EXCEPT !.call.expect = Expectation(S.fresh, kind, key),
                        !.call.sawExpired =
                            IF memoryData /\ isExpired(m[key].expiresAt)
                            THEN "memory" ELSE "none"]
    IN  IF memoryData /\ ~isExpired(m[key].expiresAt)
        THEN OnGetResult(S1, Served(m[key]))
        ELSE IF ~connAlive THEN OnGetResult(S1, ErrRes("InvalidStateError"))
        ELSE Await(S1, "get", Request("get", kind, key, NoEntry, c))

\* CachedHistoricalWeatherAPI.getHistoricalWeather / getAnalytics, up to the
\* first pending await: the indexedDB.open of the first getCacheManager() in
\* a browser, else the manager's get.  History: uninit records that the
\* cacheManager field was null when the call was made.
CachedGet(c, kind, input) ==
    LET key == KeyOf(kind, input)
        opens == apiCacheManager = 0 /\ cacheManagerInstance = 0 /\ hasWindow
        S0 == [St(c) EXCEPT !.call =
                  [Begin("CachedHistoricalWeatherAPI", kind, key, "-")
                     EXCEPT !.uninit = (apiCacheManager = 0)]]
        S1 == IF opens THEN [S0 EXCEPT !.call.pc = "initialize"]
              ELSE GetStart([S0 EXCEPT !.call.nGet = @ + 1], c, kind, key)
    IN  /\ Free(c)
        /\ nOps < MaxFetches
        /\ nOps' = nOps + 1
        /\ kind = kindInUse
        /\ Len(S1.queue) <= MaxQueue
        /\ IF apiCacheManager # 0
           THEN UNCHANGED <<apiCacheManager, cacheManagerInstance, nManagers, nOpens>>
           ELSE /\ cacheManagerInstance' =
                      IF cacheManagerInstance = 0 THEN nManagers + 1
                      ELSE cacheManagerInstance
                /\ nManagers' = IF cacheManagerInstance = 0 THEN nManagers + 1 ELSE nManagers
                /\ nOpens' = IF opens THEN nOpens + 1 ELSE nOpens
                /\ apiCacheManager' = IF opens THEN 0 ELSE cacheManagerInstance'
        /\ Commit(c, S1)
        /\ UNCHANGED <<now, hasWindow, tz, db, connAlive, idb, gcm, hook, retry, applied,
                       kindInUse, trace>>

CachedGetHistoricalWeather(c, input) == CachedGet(c, "historical", input)

CachedGetAnalytics(c, input) == CachedGet(c, "analytics", input)

AwaitsInitialize(c) ==
    calls[c].op = "CachedHistoricalWeatherAPI" /\ calls[c].pc = "initialize"

\* request.onsuccess of the indexedDB.open that the call awaits: this.db is
\* assigned, getCacheManager() and initialize() of the wrapper return, the
\* cacheManager field is assigned and the manager's get is called.
cachedOpenOnSuccess(c) ==
    /\ AwaitsInitialize(c)
    /\ db' = "open"
    /\ apiCacheManager' = cacheManagerInstance
    /\ Commit(c, GetStartOpened([St(c) EXCEPT !.call.nGet = @ + 1], c,
                                calls[c].kind, calls[c].key))
    /\ UNCHANGED <<now, hasWindow, tz, connAlive, idb, singletonVars, hook, retry, applied,
                   nOps, kindInUse, trace>>

\* request.onerror of that indexedDB.open: initialize() rejects, and so do
\* getCacheManager(), the wrapper's initialize() and the call.
cachedOpenOnError(c) ==
    /\ AwaitsInitialize(c)
    /\ Commit(c, Done(St(c), ErrRes("open.error")))
    /\ UNCHANGED <<idb, envVars>>

CachedFetching(c) ==
    calls[c].op = "CachedHistoricalWeatherAPI" /\ calls[c].pc = "fetch"

\* The fetch function of the call resolves with v: the manager's set is
\* called with it and awaited.
CachedFetchReturns(c, v) ==
    /\ CachedFetching(c)
    /\ Commit(c, SetStart([St(c) EXCEPT !.call.fetched = v, !.call.data = v,
                                        !.call.nSet = @ + 1],
                          c, calls[c].kind, calls[c].key, v))
    /\ UNCHANGED <<idb, envVars>>

\* The fetch function rejects: so does the call.
CachedFetchFails(c) ==
    /\ CachedFetching(c)
    /\ Commit(c, Done([St(c) EXCEPT !.call.fetchFailed = TRUE], ErrRes("fetchFunction")))
    /\ UNCHANGED <<idb, envVars>>

(***************************************************************************)
(* Maintenance of the manager: getCacheStats, clearAllCache,               *)
(* clearExpiredCache, close, and initialize called by a client that holds  *)
(* the manager.  All the requests of a session are on the stores of one    *)
(* kind; a transaction over both stores is ordered as one on that kind,    *)
(* and the cursor over the other, empty store is left out.                 *)
(***************************************************************************)
\* getCacheStats(): the sizes of the memory maps without a database, else
\* the counts of the two stores.
getCacheStats(c) ==
    LET S0 == [St(c) EXCEPT !.call = Begin("getCacheStats", kindInUse, NoKey, "-")]
        S1 == [S0 EXCEPT !.call.counts =
                  <<Size(mem.memoryCache), Size(mem.analyticsMemoryCache)>>]
    IN  Call(c, IF db = "null" THEN Done(S1, StatsRes)
                ELSE IF TransactionThrows THEN Done(S1, ErrRes("InvalidStateError"))
                ELSE Await(S1, "stats", Request("count", kindInUse, NoKey, NoEntry, c)))

\* Mutant: a clearAllCache that leaves the memory maps alone.
ClearAllStartKeepsMemory(S, c) ==
    IF db = "null" THEN Done(S, VoidRes)
    ELSE IF TransactionThrows THEN Done(S, ErrRes("InvalidStateError"))
    ELSE Await(S, "clear", Request("clear", kindInUse, NoKey, NoEntry, c))

\* clearAllCache(), up to the clear requests: both memory maps are cleared
\* first, then one transaction clears both stores.
ClearAllStart(S, c) ==
    LET S1 == [S EXCEPT !.mem = [n \in DOMAIN S.mem |-> EmptyMap],
                        !.fresh = [kk \in FreshKeys |-> NoFresh]]
    IN  IF db = "null" THEN Done(S1, VoidRes)
        ELSE IF TransactionThrows THEN Done(S1, ErrRes("InvalidStateError"))
        ELSE Await(S1, "clear", Request("clear", kindInUse, NoKey, NoEntry, c))

clearAllCache(c) ==
    Call(c, ClearAllStart([St(c) EXCEPT !.call =
                              Begin("clearAllCache", kindInUse, NoKey, "-")], c))

\* onsuccess of the second clear request: both stores are empty; resolve().
clearOnSuccess(i) ==
    /\ Ready(i)
    /\ connAlive
    /\ queue[i].type = "clear"
    /\ idb' = [st \in DOMAIN idb |-> EmptyMap]
    /\ Commit(queue[i].caller, Done(Pop(queue[i].caller, i), VoidRes))
    /\ UNCHANGED envVars

\* transaction.onerror: the transaction is aborted, the stores stay as they
\* were; reject(transaction.error).
clearOnError(i) ==
    /\ Ready(i)
    /\ queue[i].type = "clear"
    /\ Commit(queue[i].caller, Done(Pop(queue[i].caller, i), ErrRes("transaction.error")))
    /\ UNCHANGED <<idb, envVars>>

\* The entries of a memory map that isExpired lets stay.
Unexpired(m) == [k \in { x \in DOMAIN m : ~isExpired(m[x].expiresAt) } |-> m[k]]

\* clearExpiredCache(): nothing without a database; else a cursor over the
\* expiresAt index up to now is opened in each store, the memory maps are
\* swept, and the call returns without waiting for the cursors.
ClearExpiredStart(S) ==
    IF db = "null" THEN Done(S, VoidRes)
    ELSE IF TransactionThrows THEN Done(S, ErrRes("InvalidStateError"))
    ELSE Done([S EXCEPT !.queue = Append(@, Request("cursor", kindInUse, NoKey,
                                                    [NoEntry EXCEPT !.expiresAt = now], 0)),
                        !.mem = [n \in DOMAIN S.mem |-> Unexpired(S.mem[n])]],
              VoidRes)

clearExpiredCache(c) ==
    Call(c, ClearExpiredStart([St(c) EXCEPT !.call =
                                  Begin("clearExpiredCache", kindInUse, NoKey, "-")]))

\* The onsuccess events of the cursor over IDBKeyRange.upperBound(now), to
\* its end: every entry whose expiresAt is at most that now is deleted.
cursorOnSuccess(i) ==
    /\ Ready(i)
    /\ connAlive
    /\ queue[i].type = "cursor"
    /\ LET store == idb[StoreOf(queue[i].kind)]
           kept == { k \in DOMAIN store : store[k].expiresAt > queue[i].entry.expiresAt }
       IN  idb' = [idb EXCEPT ![StoreOf(queue[i].kind)] = [k \in kept |-> store[k]]]
    /\ Commit(0, Pop(0, i))
    /\ UNCHANGED envVars

\* The cursor request fails: no handler, nothing is deleted.
cursorOnError(i) ==
    /\ Ready(i)
    /\ queue[i].type = "cursor"
    /\ Commit(0, Pop(0, i))
    /\ UNCHANGED <<idb, envVars>>

\* Mutant: a close that closes the handle and keeps it in this.db.
CloseKeepsHandle == IF db = "null" THEN "null" ELSE "closed"

\* close(): if (this.db) { this.db.close(); this.db = null; }.  The value of
\* this.db after the call.  The transactions in flight run to their end.
Close == "null"

close(c) ==
    /\ Free(c)
    /\ nOps < OpsLimit
    /\ nOps' = nOps + 1
    /\ db' = Close
    /\ calls' = [calls EXCEPT ![c] =
                    [Begin("close", kindInUse, NoKey, "-") EXCEPT !.pc = "done",
                                                                 !.res = VoidRes]]
    /\ trace' = [Traced(c) EXCEPT !.closes = IF ~trace.on THEN 0 ELSE IF @ = 0 THEN 1 ELSE 2]
    /\ UNCHANGED <<now, hasWindow, tz, apiCacheManager, connAlive, mem, idb, queue, fresh, singletonVars, hook,
                   retry, applied, kindInUse>>

\* initialize() called by a client on the manager it was handed: with a
\* window, one more indexedDB.open, whose onsuccess assigns this.db.
initialize(cl) ==
    /\ cl # "hook"
    /\ gcm[cl].pc = "done"
    /\ gcm[cl].got # 0
    /\ nOps < OpsLimit
    /\ nOps' = nOps + 1
    /\ nOpens' = IF hasWindow THEN nOpens + 1 ELSE nOpens
    /\ gcm' = IF hasWindow THEN [gcm EXCEPT ![cl].pc = "init"] ELSE gcm
    /\ trace' = Traced(0)
    /\ UNCHANGED <<now, hasWindow, tz, apiCacheManager, managerVars, calls, cacheManagerInstance, nManagers,
                   hook, retry, applied, kindInUse>>

(***************************************************************************)
(* The error taxonomy.  A number that may be missing is Undefined, the     *)
(* result of parsing a non-numeric string is NaN.                          *)
(***************************************************************************)
Undefined == 0 - 1
NaN == 0 - 2

\* if (x): neither undefined nor NaN nor 0.
Truthy(x) == x # Undefined /\ x # NaN /\ x # 0

Err(name, code, statusCode, retryAfter) ==
    [name |-> name, code |-> code, statusCode |-> statusCode, retryAfter |-> retryAfter]

HistoricalWeatherError(code, statusCode) ==
    Err("HistoricalWeatherError", code, statusCode, Undefined)

DateValidationError ==
    Err("DateValidationError", "DATE_VALIDATION_ERROR", Undefined, Undefined)

APILimitError(retryAfter) == Err("APILimitError", "API_LIMIT_ERROR", 429, retryAfter)

DataUnavailableError ==
    Err("DataUnavailableError", "DATA_UNAVAILABLE_ERROR", 404, Undefined)

NetworkError == Err("NetworkError", "NETWORK_ERROR", Undefined, Undefined)

\* The value of a lastError that was never assigned.
NoErr == Err("undefined", "undefined", Undefined, Undefined)

(***************************************************************************)
(* What an operation can throw: an error of the taxonomy, a TypeError      *)
(* (of fetch or not), an object with a status and/or statusCode property   *)
(* and possibly a retry-after header, or anything else.                    *)
(***************************************************************************)
Raw(type, e, fetch, status, statusCode, retryAfter) ==
    [type |-> type, e |-> e, fetch |-> fetch, status |-> status,
     statusCode |-> statusCode, retryAfter |-> retryAfter]

NoRaw == Raw("none", NoErr, FALSE, Undefined, Undefined, "none")

Classified(e) == Raw("HistoricalWeatherError", e, FALSE, Undefined, Undefined, "none")

TypeErr(fetch) == Raw("TypeError", NoErr, fetch, Undefined, Undefined, "none")

Response(status, statusCode, retryAfter) ==
    Raw("object", NoErr, FALSE, status, statusCode, retryAfter)

Statuses == {400, 401, 403, 404, 429, 500, 502, 503, 504}

\* The retry-after header: missing, empty, seconds, or an HTTP date.
RetryAfterHeaders == {"none", "", "0", "5", "120", "Wed, 21 Oct 2026 07:28:00 GMT"}

RawErrors ==
    { Classified(e) : e \in { NetworkError, DateValidationError, DataUnavailableError,
                              APILimitError(Undefined), APILimitError(0),
                              APILimitError(60),
                              HistoricalWeatherError("UNKNOWN_ERROR", Undefined) } }
    \cup { TypeErr(f) : f \in BOOLEAN }
    \cup { Response(st, Undefined, "none") : st \in Statuses \cup {0} }
    \cup { Response(Undefined, st, "none") : st \in {401, 503} }
    \cup { Response(0, 503, "none") }
    \cup { Response(429, Undefined, h) : h \in RetryAfterHeaders }
    \cup { Raw("Error", NoErr, FALSE, Undefined, Undefined, "none") }

\* parseInt of a retry-after header.
ParseInt(str) ==
    CASE str = "0" -> 0
      [] str = "5" -> 5
      [] str = "120" -> 120
      [] OTHER -> NaN

\* handleAPIError with 504 in the case of 500, 502 and 503.
handleAPIErrorGateway(error) ==
    IF error.type = "HistoricalWeatherError" THEN error.e
    ELSE IF error.type = "TypeError" /\ error.fetch THEN NetworkError
    ELSE IF error.status # Undefined \/ error.statusCode # Undefined
    THEN LET status == IF Truthy(error.status) THEN error.status ELSE error.statusCode
         IN  CASE status = 401 -> HistoricalWeatherError("INVALID_API_KEY", 401)
               [] status = 403 -> HistoricalWeatherError("ACCESS_FORBIDDEN", 403)
               [] status = 404 -> DataUnavailableError
               [] status = 429 ->
                    APILimitError(IF error.retryAfter \in {"none", ""} THEN Undefined
                                  ELSE ParseInt(error.retryAfter))
               [] status \in {500, 502, 503, 504} ->
                    HistoricalWeatherError("SERVICE_UNAVAILABLE", status)
               [] OTHER -> HistoricalWeatherError("API_ERROR", status)
    ELSE HistoricalWeatherError("UNKNOWN_ERROR", Undefined)

\* HistoricalWeatherErrorHandler.handleAPIError
handleAPIError(error) ==
    IF error.type = "HistoricalWeatherError" THEN error.e
    ELSE IF error.type = "TypeError" /\ error.fetch THEN NetworkError
    ELSE IF error.status # Undefined \/ error.statusCode # Undefined
    THEN LET status == IF Truthy(error.status) THEN error.status ELSE error.statusCode
         IN  CASE status = 401 -> HistoricalWeatherError("INVALID_API_KEY", 401)
               [] status = 403 -> HistoricalWeatherError("ACCESS_FORBIDDEN", 403)
               [] status = 404 -> DataUnavailableError
               [] status = 429 ->
                    APILimitError(IF error.retryAfter \in {"none", ""} THEN Undefined
                                  ELSE ParseInt(error.retryAfter))
               [] status \in {500, 502, 503} ->
                    HistoricalWeatherError("SERVICE_UNAVAILABLE", status)
               [] OTHER -> HistoricalWeatherError("API_ERROR", status)
    ELSE HistoricalWeatherError("UNKNOWN_ERROR", Undefined)

\* isRetryable by the codes alone.
isRetryableCodesOnly(error) ==
    error.code \in {"NETWORK_ERROR", "SERVICE_UNAVAILABLE", "API_LIMIT_ERROR"}

\* HistoricalWeatherErrorHandler.isRetryable
isRetryable(error) ==
    \/ error.code \in {"NETWORK_ERROR", "SERVICE_UNAVAILABLE", "API_LIMIT_ERROR"}
    \/ error.statusCode # Undefined /\ error.statusCode \in {429, 500, 502, 503, 504}

baseDelay == 1000
maxDelay == 30000
JitterSteps == 4

Min(a, b) == IF a <= b THEN a ELSE b

\* Math.random() is random / JitterSteps, one of 0, 1/JitterSteps, ... below 1.
Randoms == 0..(JitterSteps - 1)

\* Mutant: getRetryDelay without the Math.min against maxDelay.
getRetryDelayNoCeiling(error, attempt, random) ==
    IF error.name = "APILimitError" /\ Truthy(error.retryAfter)
    THEN error.retryAfter * 1000
    ELSE LET delay == baseDelay * 2^(attempt - 1)
             jitter == (random * delay) \div (10 * JitterSteps)
         IN  delay + jitter

\* HistoricalWeatherErrorHandler.getRetryDelay, in milliseconds
getRetryDelay(error, attempt, random) ==
    IF error.name = "APILimitError" /\ Truthy(error.retryAfter)
    THEN error.retryAfter * 1000
    ELSE LET delay == Min(baseDelay * 2^(attempt - 1), maxDelay)
             jitter == (random * delay) \div (10 * JitterSteps)
         IN  delay + jitter

(***************************************************************************)
(* withRetry(operation, maxAttempts).  History: invocations and nDelays    *)
(* count the calls of operation and the delays waited; firstRetryable and  *)
(* onlyRetryable record how the failures so far classify; lastRaw is what  *)
(* the last invocation threw.                                              *)
(***************************************************************************)
MaxAttempts == 7
DefaultMaxAttempts == 3

RetryIdle ==
    [pc |-> "idle", maxAttempts |-> 0, attempt |-> 0, delay |-> 0,
     lastError |-> NoErr, thrown |-> NoErr, invocations |-> 0, nDelays |-> 0,
     firstRetryable |-> "none", onlyRetryable |-> TRUE, lastRaw |-> NoRaw]

\* A classified error that the taxonomy calls retryable.
Retryable(e) ==
    \/ e.code \in {"NETWORK_ERROR", "SERVICE_UNAVAILABLE", "API_LIMIT_ERROR"}
    \/ e.statusCode \in {429, 500, 502, 503, 504}

Invoke(r) == [r EXCEPT !.pc = "running", !.invocations = @ + 1]

Throw(r, e) == [r EXCEPT !.pc = "thrown", !.thrown = e]

\* The head of the for loop: attempt <= maxAttempts, then the try block;
\* after the loop, throw lastError.
Loop(r) == IF r.attempt <= r.maxAttempts THEN Invoke(r) ELSE Throw(r, r.lastError)

\* Mutant: a catch block that gives up one attempt early.
CatchOneShort(r, error, random) ==
    LET r1 == [r EXCEPT !.lastError = handleAPIError(error)]
    IN  IF ~isRetryable(r1.lastError) THEN Throw(r1, r1.lastError)
        ELSE IF r.attempt >= r.maxAttempts - 1 THEN Throw(r1, r1.lastError)
        ELSE [r1 EXCEPT !.pc = "waiting", !.nDelays = @ + 1,
                        !.delay = getRetryDelay(r1.lastError, r.attempt, random)]

\* Mutant: a catch block that retries whatever the error is.
CatchRetryAll(r, error, random) ==
    LET r1 == [r EXCEPT !.lastError = handleAPIError(error)]
    IN  IF r.attempt = r.maxAttempts THEN Throw(r1, r1.lastError)
        ELSE [r1 EXCEPT !.pc = "waiting", !.nDelays = @ + 1,
                        !.delay = getRetryDelay(r1.lastError, r.attempt, random)]

\* The catch block of withRetry.
Catch(r, error, random) ==
    LET r1 == [r EXCEPT !.lastError = handleAPIError(error)]
    IN  IF ~isRetryable(r1.lastError) THEN Throw(r1, r1.lastError)
        ELSE IF r.attempt = r.maxAttempts THEN Throw(r1, r1.lastError)
        ELSE [r1 EXCEPT !.pc = "waiting", !.nDelays = @ + 1,
                        !.delay = getRetryDelay(r1.lastError, r.attempt, random)]

nonRetryVarsBut ==
    <<now, hasWindow, tz, apiCacheManager, managerVars, calls, singletonVars, hook, nOps, kindInUse, trace>>
nonRetryVars == <<nonRetryVarsBut, applied>>

withRetry(maxAttempts) ==
    /\ retry.pc \in {"idle", "returned", "thrown"}
    /\ retry' = Loop([RetryIdle EXCEPT !.maxAttempts = maxAttempts, !.attempt = 1])
    /\ UNCHANGED nonRetryVars

\* operation() resolves: withRetry returns its value.
operationResolves ==
    /\ retry.pc = "running"
    /\ retry' = [retry EXCEPT !.pc = "returned"]
    /\ UNCHANGED nonRetryVars

\* operation() rejects with error.
operationRejects(error, random) ==
    /\ retry.pc = "running"
    /\ LET retryable == Retryable(handleAPIError(error))
           r == [retry EXCEPT
                   !.lastRaw = error,
                   !.firstRetryable = IF @ # "none" THEN @
                                      ELSE IF retryable THEN "yes" ELSE "no",
                   !.onlyRetryable = @ /\ retryable]
       IN  retry' = Catch(r, error, random)
    /\ UNCHANGED nonRetryVars

\* The timer of the delay fires: attempt++ and the loop goes on.
timerFires ==
    /\ retry.pc = "waiting"
    /\ retry' = Loop([retry EXCEPT !.attempt = @ + 1])
    /\ UNCHANGED nonRetryVars

(***************************************************************************)
(* The pure functions, applied to inputs of every shape: applied records   *)
(* the function, its arguments and what it returned.                       *)
(***************************************************************************)
NoApplied == [fn |-> "none"]

\* Coordinates on both sides of a rounding step and of zero, dates on both
\* sides of midnight.
KeyInputs ==
    { [lat |-> la, lon |-> lo, date |-> d] :
      la \in {-60, -40, 0, 40, 60, 40712800, 40712849, 40712850},
      lo \in {-74006000, -74006049, -40, 40},
      d \in {467999, 468000, 468023, 468024} }

\* One application in a behaviour: the functions keep nothing from one
\* application to the next.
Apply(fn, in, out) ==
    /\ applied = NoApplied
    /\ applied' = [fn |-> fn, in |-> in, out |-> out]
    /\ UNCHANGED <<nonRetryVarsBut, retry>>

ApplyGenerateHistoricalKey(a, b) ==
    Apply("generateHistoricalKey", <<a, b>>,
          <<generateHistoricalKey(a.lat, a.lon, a.date),
            generateHistoricalKey(b.lat, b.lon, b.date)>>)

ApplyHandleAPIError(error) == Apply("handleAPIError", error, handleAPIError(error))

Codes ==
    {"NETWORK_ERROR", "SERVICE_UNAVAILABLE", "API_LIMIT_ERROR", "INVALID_API_KEY",
     "ACCESS_FORBIDDEN", "DATA_UNAVAILABLE_ERROR", "DATE_VALIDATION_ERROR",
     "API_ERROR", "UNKNOWN_ERROR"}

Errors ==
    { HistoricalWeatherError(code, st) : code \in Codes, st \in Statuses \cup {Undefined, 0} }
    \cup { handleAPIError(e) : e \in RawErrors }

ApplyIsRetryable(error) == Apply("isRetryable", error, isRetryable(error))

ApplyGetRetryDelay(error, attempt, random) ==
    Apply("getRetryDelay", <<error, attempt, random>>,
          getRetryDelay(error, attempt, random))

(***************************************************************************)
(* Spec: direct clients of one cache manager.  Client a's getCacheManager()*)
(* has created it and, in a browser, its database is being opened; callers *)
(* that arrive meanwhile are handed the same manager.  The database may    *)
(* hold an entry of an earlier session.                                    *)
(***************************************************************************)
\* The time zones: UTC, and one with a daylight-saving transition, forward
\* or back by an hour, in the last hours of the session.
UTC == [at |-> 0, shift |-> 0]

TimeZones == {UTC} \cup { [at |-> MaxTime - 6, shift |-> h] : h \in {0 - 1, 1} }

Leftover(kind) ==
    [data |-> "v1", cachedAt |-> -ExpiryHours(kind), expiresAt |-> 0]

NoStores == [s \in {HISTORICAL_STORE, ANALYTICS_STORE} |-> EmptyMap]

InitStores(kind) ==
    { [NoStores EXCEPT ![StoreOf(kind)] = h] :
      h \in {EmptyMap} \cup { MapSet(EmptyMap, k, Leftover(kind)) : k \in KeysOf(kind) } }

InitManager ==
    /\ now = 0
    /\ db = "null"
    /\ connAlive = TRUE
    /\ mem = [memoryCache |-> EmptyMap, analyticsMemoryCache |-> EmptyMap]
    /\ queue = <<>>
    /\ calls = [c \in Callers |-> Idle]
    /\ fresh = [kk \in FreshKeys |-> NoFresh]
    /\ nOps = 0
    /\ applied = NoApplied

InitBrowser ==
    /\ hasWindow \in BOOLEAN
    /\ kindInUse \in Kinds
    /\ idb \in IF hasWindow THEN InitStores(kindInUse) ELSE {NoStores}

InitModule ==
    /\ cacheManagerInstance = 0
    /\ nManagers = 0
    /\ nOpens = 0
    /\ gcm = [cl \in Clients |-> NoCall]
    /\ hook = Unmounted
    /\ apiCacheManager = 0
    /\ retry = RetryIdle

InitClients ==
    /\ InitManager
    /\ InitBrowser
    /\ cacheManagerInstance = 1
    /\ nManagers = 1
    /\ nOpens = IF hasWindow THEN 1 ELSE 0
    /\ gcm = [cl \in Clients |->
                IF cl # "a" THEN NoCall
                ELSE IF hasWindow THEN [NoCall EXCEPT !.pc = "init"]
                ELSE [NoCall EXCEPT !.pc = "done", !.got = 1]]
    /\ hook = Unmounted
    /\ apiCacheManager = 0
    /\ retry = RetryIdle

Init == InitClients /\ trace = NoTrace /\ tz \in TimeZones

Callbacks ==
    \/ \E i \in 1..Len(queue) : getOnSuccess(i)
    \/ \E i \in 1..Len(queue) : getOnError(i)
    \/ \E i \in 1..Len(queue) : putOnSuccess(i)
    \/ \E i \in 1..Len(queue) : putOnError(i)
    \/ \E i \in 1..Len(queue) : deleteOnSuccess(i)
    \/ \E i \in 1..Len(queue) : deleteOnError(i)

Next ==
    \/ \E c \in Callers, i \in HistoricalInputs : getHistoricalWeather(c, i)
    \/ \E c \in Callers, i \in AnalyticsInputs : getAnalytics(c, i)
    \/ \E c \in Callers, i \in HistoricalInputs, d \in Payloads :
          setHistoricalWeather(c, i, d)
    \/ \E c \in Callers, i \in AnalyticsInputs, d \in Payloads : setAnalytics(c, i, d)
    \/ \E c \in Callers, i \in HistoricalInputs : removeHistoricalWeather(c, i)
    \/ \E c \in Callers, i \in AnalyticsInputs : removeAnalytics(c, i)
    \/ Callbacks
    \/ \E cl \in Clients : openOnSuccess(cl)
    \/ \E cl \in Clients : openOnError(cl)
    \/ Tick

Spec == Init /\ [][Next]_vars

(***************************************************************************)
(* SpecFetch: components that fetch through one mounted                    *)
(* useCachedHistoricalWeather hook, from the first render on.              *)
(***************************************************************************)
InitFetch == InitManager /\ InitBrowser /\ InitModule /\ trace = NoTrace /\ tz = UTC

NextFetch ==
    \/ useHistoricalWeatherCache
    \/ \E c \in Callers, i \in HistoricalInputs : fetchWithCache(c, i)
    \/ \E c \in Callers, i \in AnalyticsInputs : fetchAnalyticsWithCache(c, i)
    \/ \E c \in Callers, v \in Payloads : FetchReturns(c, v)
    \/ \E c \in Callers : FetchFails(c)
    \/ Callbacks
    \/ \E i \in 1..Len(queue) : countOnSuccess(i)
    \/ \E i \in 1..Len(queue) : countOnError(i)
    \/ \E cl \in Clients : openOnSuccess(cl)
    \/ \E cl \in Clients : openOnError(cl)
    \/ ConnectionLost
    \/ Tick

SpecFetch == InitFetch /\ [][NextFetch]_vars

(***************************************************************************)
(* SpecSingleton: the clients of getCacheManager() from module load on.    *)
(***************************************************************************)
InitQuiet ==
    /\ InitManager
    /\ kindInUse = "historical"
    /\ idb = NoStores
    /\ InitModule
    /\ trace = NoTrace
    /\ tz = UTC

InitSingleton == InitQuiet /\ hasWindow \in BOOLEAN

NextSingleton ==
    \/ \E cl \in Clients : getCacheManager(cl)
    \/ \E cl \in Clients : openOnSuccess(cl)
    \/ \E cl \in Clients : openOnError(cl)

SpecSingleton == InitSingleton /\ [][NextSingleton]_vars

(***************************************************************************)
(* SpecInitialize: clients that call getCacheManager() and call            *)
(* initialize() themselves on the manager they were handed.                *)
(***************************************************************************)
NextInitialize ==
    \/ \E cl \in Clients : getCacheManager(cl)
    \/ \E cl \in Clients : initialize(cl)
    \/ \E cl \in Clients : openOnSuccess(cl)
    \/ \E cl \in Clients : openOnError(cl)

SpecInitialize == InitSingleton /\ [][NextInitialize]_vars

(***************************************************************************)
(* SpecRetry: calls of withRetry with every operation behaviour.           *)
(***************************************************************************)
InitRetry == InitQuiet /\ hasWindow = FALSE

NextRetry ==
    \/ \E m \in (0 - 1)..MaxAttempts : withRetry(m)
    \/ withRetry(DefaultMaxAttempts)
    \/ operationResolves
    \/ \E e \in RawErrors, random \in Randoms : operationRejects(e, random)
    \/ timerFires

SpecRetry == InitRetry /\ [][NextRetry]_vars

(***************************************************************************)
(* SpecAdmin: clients that read and write historical records and maintain  *)
(* the manager: stats, clearing, sweeping, closing, initializing again.    *)
(***************************************************************************)
InitAdmin ==
    /\ InitClients
    /\ kindInUse = "historical"
    /\ trace = [NoTrace EXCEPT !.on = TRUE]
    /\ tz = UTC

NextAdmin ==
    \/ \E c \in Callers, i \in HistoricalInputs : getHistoricalWeather(c, i)
    \/ \E c \in Callers, i \in HistoricalInputs, d \in Payloads :
          setHistoricalWeather(c, i, d)
    \/ \E c \in Callers : getCacheStats(c)
    \/ \E c \in Callers : clearAllCache(c)
    \/ \E c \in Callers : clearExpiredCache(c)
    \/ Callbacks
    \/ \E i \in 1..Len(queue) : countOnSuccess(i)
    \/ \E i \in 1..Len(queue) : countOnError(i)
    \/ \E i \in 1..Len(queue) : clearOnSuccess(i)
    \/ \E i \in 1..Len(queue) : clearOnError(i)
    \/ \E i \in 1..Len(queue) : cursorOnSuccess(i)
    \/ \E i \in 1..Len(queue) : cursorOnError(i)
    \/ \E cl \in Clients : openOnSuccess(cl)
    \/ \E cl \in Clients : openOnError(cl)
    \/ Tick

SpecAdmin == InitAdmin /\ [][NextAdmin]_vars

(***************************************************************************)
(* SpecLifecycle: clients that read and write historical records, ask for  *)
(* the stats, clear the cache and close the manager.                       *)
(***************************************************************************)
NextLifecycle ==
    \/ \E c \in Callers, i \in HistoricalInputs : getHistoricalWeather(c, i)
    \/ \E c \in Callers, i \in HistoricalInputs, d \in Payloads :
          setHistoricalWeather(c, i, d)
    \/ \E c \in Callers, i \in HistoricalInputs : removeHistoricalWeather(c, i)
    \/ \E c \in Callers : getCacheStats(c)
    \/ \E c \in Callers : clearAllCache(c)
    \/ \E c \in Callers : close(c)
    \/ Callbacks
    \/ \E i \in 1..Len(queue) : countOnSuccess(i)
    \/ \E i \in 1..Len(queue) : countOnError(i)
    \/ \E i \in 1..Len(queue) : clearOnSuccess(i)
    \/ \E i \in 1..Len(queue) : clearOnError(i)
    \/ \E cl \in Clients : openOnSuccess(cl)
    \/ \E cl \in Clients : openOnError(cl)
    \/ Tick

SpecLifecycle == InitAdmin /\ [][NextLifecycle]_vars

(***************************************************************************)
(* SpecCached: components that read through CachedHistoricalWeatherAPI,    *)
(* from module load on.  The requests issued on the database complete and  *)
(* the fetch function settles; nothing makes an indexedDB.open complete.   *)
(***************************************************************************)
NextCached ==
    \/ \E c \in Callers, i \in HistoricalInputs : CachedGetHistoricalWeather(c, i)
    \/ \E c \in Callers, i \in AnalyticsInputs : CachedGetAnalytics(c, i)
    \/ \E c \in Callers, v \in Payloads : CachedFetchReturns(c, v)
    \/ \E c \in Callers : CachedFetchFails(c)
    \/ Callbacks
    \/ \E c \in Callers : cachedOpenOnSuccess(c)
    \/ \E c \in Callers : cachedOpenOnError(c)
    \/ Tick

Settles ==
    \/ Callbacks
    \/ \E c \in Callers, v \in Payloads : CachedFetchReturns(c, v)
    \/ \E c \in Callers : CachedFetchFails(c)

SpecCached == InitFetch /\ [][NextCached]_vars /\ WF_vars(Settles)

(***************************************************************************)
(* SpecUnmount: one component that uses useHistoricalWeatherCache mounts   *)
(* and unmounts; the clients a, b and c are the other consumers of the     *)
(* singleton, which stay.                                                  *)
(***************************************************************************)
NextUnmount ==
    \/ useHistoricalWeatherCache
    \/ unmount
    \/ \E cl \in Clients : getCacheManager(cl)
    \/ \E cl \in Clients : openOnSuccess(cl)
    \/ \E cl \in Clients : openOnError(cl)
    \/ \E i \in 1..Len(queue) : countOnSuccess(i)
    \/ \E i \in 1..Len(queue) : countOnError(i)

SpecUnmount == InitFetch /\ [][NextUnmount]_vars

(***************************************************************************)
(* SpecPure: the pure functions of the key generator and of the error      *)
(* handler, applied one at a time.                                         *)
(***************************************************************************)
NextPure ==
    \/ \E a \in KeyInputs, b \in KeyInputs : ApplyGenerateHistoricalKey(a, b)
    \/ \E e \in RawErrors : ApplyHandleAPIError(e)
    \/ \E e \in Errors : ApplyIsRetryable(e)
    \/ \E e \in Errors, attempt \in 1..MaxAttempts, random \in Randoms :
          ApplyGetRetryDelay(e, attempt, random)

SpecPure == InitRetry /\ [][NextPure]_vars

(***************************************************************************)
(* Properties of the cache manager (Spec).                                 *)
(***************************************************************************)
GetDone(c) == calls[c].op = "get" /\ calls[c].pc = "done"

ReturnsExpected(c) ==
    calls[c].res.t = "value" /\ calls[c].res.v = calls[c].expect.data

\* C1.  Round trip: a set that has completed, followed by a get of the same
\* key with no other operation on the key since the set was issued and the
\* entry not yet expired, makes the get return the payload that was set, in
\* durable mode and in memory-only mode.
RoundTripLaw ==
    \A c \in Callers :
        (GetDone(c) /\ calls[c].expect.outcome = "ok") => ReturnsExpected(c)

\* C1 witness: one get has returned the payload of a set that went through
\* the durable store, another the payload of a set made without a database.
RoundTripWitness ==
    \E c1, c2 \in Callers :
        /\ GetDone(c1) /\ calls[c1].expect.outcome = "ok"
        /\ calls[c1].expect.durable /\ ReturnsExpected(c1)
        /\ GetDone(c2) /\ calls[c2].expect.outcome = "ok"
        /\ ~calls[c2].expect.durable /\ ReturnsExpected(c2)

\* C2.  Expired entries are never served: a get (historical or analytics)
\* never returns the payload of an entry whose expiresAt is earlier than the
\* time of the return, whichever tier held it; a get that found only expired
\* entries returns null.
ExpiredNeverServed ==
    \A c \in Callers :
        GetDone(c) =>
            /\ calls[c].res.t \in {"value", "null"}
            /\ calls[c].res.t = "value" => ~calls[c].res.stale
            /\ calls[c].sawExpired \in {"durable", "both"} => calls[c].res.t = "null"

\* C2 witness: one get found an expired entry in the memory map, another
\* found one in the durable store only, and both returned null.
ExpiredWitness ==
    \E c1, c2 \in Callers :
        /\ GetDone(c1) /\ calls[c1].sawExpired \in {"memory", "both"}
        /\ calls[c1].res.t = "null"
        /\ GetDone(c2) /\ calls[c2].sawExpired = "durable"
        /\ calls[c2].res.t = "null"

\* C10.  A set whose durable put fails rejects with the storage error, and
\* the memory map keeps the new entry: a following get of the key, with no
\* other operation on the key in between and the entry not yet expired,
\* returns the new payload.
FailedSetStaysVisible ==
    \A c \in Callers :
        /\ (calls[c].op = "set" /\ calls[c].pc = "done" /\ calls[c].putFailed)
              => calls[c].res = ErrRes("request.error")
        /\ (GetDone(c) /\ calls[c].expect.outcome = "failed") => ReturnsExpected(c)

\* C10 witness: a set has been rejected because its put failed, and a get
\* issued after it has returned the payload of that set.
FailedSetWitness ==
    \E c1, c2 \in Callers :
        /\ calls[c1].op = "set" /\ calls[c1].pc = "done" /\ calls[c1].putFailed
        /\ calls[c1].res.t = "error"
        /\ GetDone(c2) /\ calls[c2].expect.outcome = "failed"
        /\ calls[c2].key = calls[c1].key /\ calls[c2].res.v = calls[c1].data

\* C22.  Write-through: with the database open and no request pending, each
\* unexpired entry of a memory map is also in the durable store, and the
\* memory copy of a key is not older than its durable copy.
WriteThrough ==
    (hasWindow /\ db = "open" /\ queue = <<>>) =>
        \A kind \in Kinds : \A k \in DOMAIN mem[MapOf(kind)] :
            LET m == mem[MapOf(kind)]
                store == idb[StoreOf(kind)]
            IN  ~isExpired(m[k].expiresAt) =>
                    /\ Has(store, k)
                    /\ m[k].cachedAt >= store[k].cachedAt

\* C23.  Per-kind TTL: every entry held in a memory map or in a store expires
\* 24 hours after its write time if it is a historical entry and 6 hours
\* after it if it is an analytics entry, and so after its creation time.
PerKindTtl ==
    \A kind \in Kinds :
        \A m \in {mem[MapOf(kind)], idb[StoreOf(kind)]} : \A k \in DOMAIN m :
            /\ m[k].expiresAt = m[k].cachedAt + ExpiryHours(kind)
            /\ m[k].expiresAt > m[k].cachedAt

\* C27.  A completed set is not undone by a concurrent get: while the entry
\* of the latest set of a key, completed successfully, is unexpired and no
\* later set, remove or clear has touched the key, the memory map holds that
\* entry (a get returns its payload) and, if the set wrote through, so does
\* the store.
CompletedSetStays ==
    \A kind \in Kinds : \A k \in KeysOf(kind) :
        LET f == fresh[<<kind, k>>]
            m == mem[MapOf(kind)]
            store == idb[StoreOf(kind)]
        IN  (f.outcome = "ok" /\ ~isExpired(f.expiresAt)) =>
                /\ Has(m, k) /\ m[k].data = f.data /\ m[k].expiresAt = f.expiresAt
                /\ f.durable =>
                      /\ Has(store, k)
                      /\ store[k].data = f.data /\ store[k].expiresAt = f.expiresAt

(***************************************************************************)
(* Properties of withRetry (SpecRetry).                                    *)
(***************************************************************************)
\* C3.  withRetry exhausts its attempts on retryable failures: for every
\* maxAttempts >= 1, when every invocation of the operation fails with an
\* error that classifies as retryable, withRetry fails only after exactly
\* maxAttempts invocations with exactly maxAttempts - 1 delays in between,
\* and it fails with the classified error of the last attempt.
RetryExhaustsAttempts ==
    (retry.maxAttempts >= 1 /\ retry.onlyRetryable) =>
        /\ retry.pc \in {"running", "waiting"} =>
              /\ retry.invocations = retry.attempt
              /\ retry.invocations <= retry.maxAttempts
              /\ retry.nDelays = retry.invocations - (IF retry.pc = "running" THEN 1 ELSE 0)
        /\ retry.pc = "waiting" => retry.invocations < retry.maxAttempts
        /\ retry.pc = "thrown" =>
              /\ retry.invocations = retry.maxAttempts
              /\ retry.nDelays = retry.maxAttempts - 1
              /\ retry.thrown = handleAPIError(retry.lastRaw)

\* C3 witness: withRetry has failed with a NetworkError after the 3
\* invocations and 2 delays of the default maxAttempts.
RetryExhaustsWitness ==
    /\ retry.pc = "thrown" /\ retry.onlyRetryable
    /\ retry.maxAttempts = DefaultMaxAttempts
    /\ retry.invocations = 3 /\ retry.nDelays = 2
    /\ retry.thrown = NetworkError

\* C4.  withRetry never retries a non-retryable failure: when the first
\* failure of the operation classifies as non-retryable, withRetry has
\* failed with that classified error after one invocation and no delay,
\* whatever maxAttempts is.
NonRetryableFailsAtOnce ==
    retry.firstRetryable = "no" =>
        /\ retry.pc = "thrown"
        /\ retry.invocations = 1
        /\ retry.nDelays = 0
        /\ retry.thrown = handleAPIError(retry.lastRaw)
        /\ ~Retryable(retry.thrown)

\* C4 witness: a status 401 has made a withRetry of 3 or more attempts fail
\* with INVALID_API_KEY after one invocation.
NonRetryableWitness ==
    /\ retry.firstRetryable = "no" /\ retry.pc = "thrown"
    /\ retry.maxAttempts >= 3 /\ retry.invocations = 1
    /\ retry.lastRaw = Response(401, Undefined, "none")
    /\ retry.thrown = HistoricalWeatherError("INVALID_API_KEY", 401)

\* The status a raw failure carries: its status, or else its statusCode.
CarriedStatus(raw) == IF Truthy(raw.status) THEN raw.status ELSE raw.statusCode

\* A raw failure carrying a status that the classification has no case for.
OtherStatus(raw) ==
    /\ raw.type = "object"
    /\ CarriedStatus(raw) \notin {401, 403, 404, 429, 500, 502, 503}

\* C20, as stated.  A failure carrying any status outside 401, 403, 404, 429,
\* 500, 502, 503, 504 included, classifies as API_ERROR and is not retried:
\* withRetry fails at once, after one invocation when it is the first failure.
OtherStatusNotRetried ==
    OtherStatus(retry.lastRaw) =>
        /\ retry.lastError.code = "API_ERROR"
        /\ retry.pc = "thrown"
        /\ retry.nDelays = 0 => retry.invocations = 1

\* C20, amended.  A failure carrying any status outside 401, 403, 404, 429,
\* 500, 502, 503 classifies as API_ERROR; unless the status is 504 it is not
\* retried, and withRetry fails at once, after one invocation when it is the
\* first failure; a 504 is retryable, and withRetry fails on it only at the
\* last attempt.
OtherStatusNotRetriedBut504 ==
    OtherStatus(retry.lastRaw) =>
        /\ retry.lastError.code = "API_ERROR"
        /\ IF CarriedStatus(retry.lastRaw) = 504
           THEN /\ Retryable(retry.lastError)
                /\ retry.pc = "thrown" => retry.attempt = retry.maxAttempts
           ELSE /\ retry.pc = "thrown"
                /\ retry.thrown = retry.lastError
                /\ ~Retryable(retry.thrown)
                /\ retry.nDelays = 0 => retry.invocations = 1

\* C20 witness: a status 400 has made a withRetry of 3 or more attempts fail
\* with API_ERROR after one invocation.
OtherStatusWitness ==
    /\ retry.lastRaw = Response(400, Undefined, "none")
    /\ retry.pc = "thrown"
    /\ retry.maxAttempts >= 3
    /\ retry.invocations = 1
    /\ retry.thrown = HistoricalWeatherError("API_ERROR", 400)

\* C30.  withRetry only fails with classified errors: whatever maxAttempts
\* is, 0 and negative values included, what a failed withRetry throws is the
\* classified form of the last failure of the operation, never undefined,
\* and the operation has been invoked at most max(maxAttempts, 0) times.
ThrowsClassified ==
    /\ retry.invocations <= (IF retry.maxAttempts > 0 THEN retry.maxAttempts ELSE 0)
    /\ retry.pc = "thrown" =>
          /\ retry.thrown # NoErr
          /\ retry.thrown = handleAPIError(retry.lastRaw)

\* maxDelay plus 10% jitter.
DelayCeiling == maxDelay + maxDelay \div 10

\* C21, as stated.  Every wait of withRetry is at most 33 seconds, whatever
\* the attempt and the classified error, an APILimitError with a retryAfter
\* included.
WaitAtMostCeiling == retry.pc = "waiting" => retry.delay <= DelayCeiling

\* C21, amended.  Every wait of withRetry is at most 33 seconds, unless the
\* classified error is an APILimitError with a retryAfter that is neither
\* missing nor 0: the wait is then retryAfter seconds, with no ceiling.
WaitAtMostCeilingButRetryAfter ==
    retry.pc = "waiting" =>
        IF retry.lastError.name = "APILimitError" /\ Truthy(retry.lastError.retryAfter)
        THEN retry.delay = retry.lastError.retryAfter * 1000
        ELSE retry.delay <= DelayCeiling

\* C21 witness: withRetry waits more than maxDelay, the backoff of a late
\* attempt having met the ceiling and jitter having been added.
WaitCeilingWitness ==
    /\ retry.pc = "waiting"
    /\ retry.attempt >= 6
    /\ retry.lastError = NetworkError
    /\ retry.delay > maxDelay

(***************************************************************************)
(* Properties of fetchWithCache (SpecFetch).                               *)
(***************************************************************************)
FetchCall(c) == calls[c].op = "fetchWithCache"

FetchDone(c) == FetchCall(c) /\ calls[c].pc = "done"

\* C5.  No second fetch within the TTL: a fetchWithCache call for a key
\* that an earlier fetch has cached, made before that entry expires and with
\* no other operation having displaced the entry, returns the cached value
\* at once and does not invoke the fetch function.
NoSecondFetch ==
    \A c \in Callers :
        (FetchCall(c) /\ calls[c].expect.outcome = "ok") =>
            /\ calls[c].pc = "done"
            /\ calls[c].nFetch = 0
            /\ ReturnsExpected(c)

\* C5 witness: a fetchWithCache call has returned the value an earlier call
\* fetched and wrote through to the durable store, without fetching.
NoSecondFetchWitness ==
    \E c \in Callers :
        /\ FetchDone(c) /\ calls[c].expect.outcome = "ok" /\ calls[c].expect.durable
        /\ calls[c].nFetch = 0 /\ ReturnsExpected(c)

\* C6.  Fail-open write path: when the cache is initialized, the get
\* misses, the fetch succeeds and the cache set fails because the durable
\* store rejects the put, fetchWithCache returns the value produced by that
\* fetch.
FailOpenWrite ==
    \A c \in Callers :
        (FetchDone(c) /\ ~calls[c].getThrew /\ calls[c].putFailed) =>
            calls[c].res = Value(calls[c].data)

\* C7.  While isInitialized is false, fetchWithCache invokes the fetch
\* function exactly once, in the call itself and without waiting for the
\* initialization, performs no cache get or set, and returns the result of
\* that fetch.
UninitializedFetchesDirectly ==
    \A c \in Callers :
        (FetchCall(c) /\ calls[c].uninit) =>
            /\ calls[c].pc \in {"direct", "done"}
            /\ calls[c].nFetch = 1
            /\ calls[c].nGet = 0 /\ calls[c].nSet = 0
            /\ calls[c].pc = "done" =>
                  IF calls[c].fetchFailed THEN calls[c].res.t = "error"
                  ELSE calls[c].res = Value(calls[c].fetched)

\* C7 witness: a fetchWithCache call has returned the fetched value while
\* the database of the cache was still being opened.
UninitializedWitness ==
    \E c \in Callers :
        /\ FetchDone(c) /\ calls[c].uninit /\ calls[c].res = Value(calls[c].fetched)
        /\ calls[c].nFetch = 1
        /\ gcm["hook"].pc = "init"

\* C8.  Fail-open read path: when the manager's get throws or rejects,
\* fetchWithCache invokes the fetch function, and if the fetch function does
\* not fail it returns what the fetch function returned.
FailOpenRead ==
    \A c \in Callers :
        (FetchCall(c) /\ calls[c].getThrew) =>
            /\ calls[c].nFetch >= 1
            /\ (calls[c].pc = "done" /\ ~calls[c].fetchFailed) =>
                  calls[c].res = Value(calls[c].fetched)

\* C8 witness: the get of a fetchWithCache call has been rejected and the
\* call has returned what the fetch function returned.
FailOpenReadWitness ==
    \E c \in Callers :
        /\ FetchDone(c) /\ calls[c].getThrew /\ ~calls[c].fetchFailed
        /\ calls[c].res = Value(calls[c].fetched)

\* C26.  At most one fetch per call: a fetchWithCache or
\* fetchAnalyticsWithCache call invokes the fetch function at most once
\* whatever its outcome, and not at all when the cache get returned a value.
AtMostOneFetch ==
    \A c \in Callers :
        FetchCall(c) =>
            /\ calls[c].nFetch <= 1
            /\ (calls[c].pc = "done" /\ calls[c].nGet = 1 /\ calls[c].nSet = 0
                  /\ ~calls[c].fetchFailed /\ calls[c].fetched = "-")
                  => calls[c].nFetch = 0

(***************************************************************************)
(* Properties of getCacheManager (SpecSingleton).                          *)
(***************************************************************************)
\* C9.  Singleton under concurrency: every getCacheManager call, in any
\* interleaving, resolves to the one manager that was constructed, and
\* indexedDB.open is called at most once.
SingletonLaw ==
    /\ nManagers <= 1
    /\ nOpens <= 1
    /\ \A cl \in Clients :
          gcm[cl].pc = "done" => (gcm[cl].got = 1 /\ gcm[cl].got = cacheManagerInstance)

\* C9 witness: three clients hold the same manager, one of them handed it
\* while the first initialization was in flight, and the database was
\* opened once.
SingletonWitness ==
    /\ \A cl \in {"a", "b", "c"} : gcm[cl].pc = "done" /\ gcm[cl].got = 1
    /\ \E cl \in {"a", "b", "c"} : gcm[cl].early
    /\ nOpens = 1

\* C28.  getCacheManager never hands out an uninitialized manager: a call
\* that has resolved was not made during an initialization and, in a
\* browser, the manager it resolved to has its database open.
NeverUninitialized ==
    \A cl \in Clients :
        gcm[cl].pc = "done" =>
            /\ ~gcm[cl].early
            /\ hasWindow => db = "open"

\* C29.  The shared handle outlives any single consumer: no step closes the
\* open database while a consumer other than the component that unmounts
\* holds the manager.
HandleOutlivesConsumer ==
    [][ ( /\ db = "open"
          /\ \E cl \in Clients \ {"hook"} : gcm[cl].pc = "done" /\ gcm[cl].got # 0 )
        => db' = "open" ]_vars

(***************************************************************************)
(* Properties of the pure functions (SpecPure).                            *)
(***************************************************************************)
\* The number a coordinate rounds to at 4 decimals, in units of 1e-4 degree.
RoundTo4(x) == IF x >= 0 THEN (x + 50) \div 100 ELSE -((50 - x) \div 100)

\* The calendar day (UTC) of a date.
DayOf(date) == date \div 24

\* C13. generateHistoricalKey gives two inputs the same key exactly when
\* their latitudes agree after rounding to 4 decimals, their longitudes
\* agree after rounding to 4 decimals, and their dates fall on the same
\* calendar day.
KeyNormalization ==
    applied.fn = "generateHistoricalKey" =>
        LET a == applied.in[1]
            b == applied.in[2]
        IN  (applied.out[1] = applied.out[2])
            <=> /\ RoundTo4(a.lat) = RoundTo4(b.lat)
                /\ RoundTo4(a.lon) = RoundTo4(b.lon)
                /\ DayOf(a.date) = DayOf(b.date)

\* C14. handleAPIError returns an error that is already classified as it
\* is; a raw failure carrying a status it classifies by that status: 401 as
\* INVALID_API_KEY, 403 as ACCESS_FORBIDDEN, 404 as a DataUnavailableError,
\* 429 as an APILimitError that carries the seconds of the retry-after
\* header when there is one and no retryAfter when there is none, 500, 502
\* and 503 as SERVICE_UNAVAILABLE, every other status as API_ERROR.
StatusClassification ==
    applied.fn = "handleAPIError" =>
        LET raw == applied.in
            e == applied.out
            st == CarriedStatus(raw)
        IN  /\ raw.type = "HistoricalWeatherError" => e = raw.e
            /\ raw.type = "object" =>
                  CASE st = 401 -> e.code = "INVALID_API_KEY"
                    [] st = 403 -> e.code = "ACCESS_FORBIDDEN"
                    [] st = 404 -> e.name = "DataUnavailableError"
                    [] st = 429 ->
                         /\ e.name = "APILimitError"
                         /\ e.code = "API_LIMIT_ERROR"
                         /\ raw.retryAfter = "0" => e.retryAfter = 0
                         /\ raw.retryAfter = "5" => e.retryAfter = 5
                         /\ raw.retryAfter = "120" => e.retryAfter = 120
                         /\ raw.retryAfter = "none" => e.retryAfter = Undefined
                    [] st \in {500, 502, 503} -> e.code = "SERVICE_UNAVAILABLE"
                    [] OTHER -> e.code = "API_ERROR"

StatusClassificationWitness ==
    /\ applied.fn = "handleAPIError"
    /\ applied.in = Response(504, Undefined, "none")
    /\ applied.out = HistoricalWeatherError("API_ERROR", 504)

\* C15. isRetryable(e) is true if and only if the code of e is one of
\* NETWORK_ERROR, SERVICE_UNAVAILABLE, API_LIMIT_ERROR or the statusCode of
\* e is one of 429, 500, 502, 503, 504.
RetryabilityPredicate ==
    applied.fn = "isRetryable" => (applied.out <=> Retryable(applied.in))

RetryabilityWitness ==
    /\ applied.fn = "isRetryable"
    /\ applied.in = HistoricalWeatherError("API_ERROR", 504)
    /\ applied.out

\* C16. getRetryDelay(e, attempt) is retryAfter * 1000 ms whenever e is an
\* APILimitError carrying a retryAfter value, 0 included; otherwise it is
\* d + j with d = min(1000 ms * 2^(attempt-1), 30000 ms) and 0 <= j <= d/10.
RetryDelayLaw ==
    applied.fn = "getRetryDelay" =>
        LET e == applied.in[1]
            attempt == applied.in[2]
            d == Min(1000 * 2^(attempt - 1), 30000)
        IN  IF e.name = "APILimitError" /\ e.retryAfter \notin {Undefined, NaN}
            THEN applied.out = e.retryAfter * 1000
            ELSE d <= applied.out /\ 10 * (applied.out - d) <= d

(***************************************************************************)
(* Properties of the maintenance operations (SpecAdmin).                   *)
(***************************************************************************)
\* The latest call is the one in calls[c], it was made with nothing else in
\* flight, and it has completed together with the requests it issued.
RanAlone(c, op) ==
    /\ calls[c].op = op
    /\ calls[c].pc = "done"
    /\ trace.last = c
    /\ trace.alone
    /\ queue = <<>>

\* Both memory maps are empty, and so are both stores of the database the
\* manager holds.
AllEmpty ==
    /\ \A n \in DOMAIN mem : mem[n] = EmptyMap
    /\ db # "null" => \A st \in DOMAIN idb : idb[st] = EmptyMap

\* C11. After a clearAllCache that ran alone has resolved, both memory maps
\* and both durable stores are empty; a getCacheStats called next reports
\* historicalCount = 0 and analyticsCount = 0; a second clearAllCache called
\* next fails in no other way than the first and leaves the same empty
\* state and the same stats.
ClearAllIdempotent ==
    \A c \in Callers :
        /\ RanAlone(c, "clearAllCache") /\ calls[c].res = VoidRes => AllEmpty
        /\ RanAlone(c, "clearAllCache") /\ trace.clears >= 1 =>
              calls[c].res \in {VoidRes, ErrRes("transaction.error")}
        /\ (calls[c].op = "getCacheStats" /\ calls[c].pc = "done"
              /\ trace.last = c /\ trace.clears >= 1) =>
              calls[c].res = StatsRes /\ calls[c].counts = <<0, 0>>

\* Two calls of clearAllCache on a database that held an entry, then the
\* stats.
ClearAllWitness ==
    \E c \in Callers :
        /\ calls[c].op = "getCacheStats"
        /\ calls[c].pc = "done"
        /\ trace.last = c
        /\ trace.clears = 2
        /\ db = "open"
        /\ calls[c].counts = <<0, 0>>

\* The entries of a map whose expiresAt is at most t.
ExpiredBy(m, t) == { k \in DOMAIN m : m[k].expiresAt <= t }

\* C12. After a clearExpiredCache called at time now has completed, no
\* entry with expiresAt <= now remains in a memory map, with the database
\* open and in memory-only mode alike.  (The half of the claim that does not
\* depend on the cursors of the durable stores succeeding.)
SweepRemovesExpired ==
    \A c \in Callers :
        RanAlone(c, "clearExpiredCache") /\ calls[c].res = VoidRes =>
            \A n \in DOMAIN mem : ExpiredBy(mem[n], trace.at) = {}

\* C19. Lazy removal on read, in memory-only mode (the case of the claim
\* that depends on no request to the database succeeding): after a get for
\* a key whose entry in the memory map has expired has completed, the key is
\* absent from the memory map.
LazyRemoval ==
    \A c \in Callers :
        (RanAlone(c, "get") /\ calls[c].sawExpired # "none" /\ db = "null") =>
            ~Has(mem[MapOf(calls[c].kind)], calls[c].key)

(***************************************************************************)
(* Properties of the manager's lifecycle (SpecInitialize, SpecLifecycle).  *)
(***************************************************************************)
\* C17. initialize() is idempotent: however often it is called on a
\* manager, one after the other or while an earlier call is pending, the
\* manager opens one database handle.
InitializeIdempotent == nOpens <= nManagers

ReadNeverBlockedOnInit ==
    \A c \in Callers :
        AwaitsInitialize(c) ~>
            (~AwaitsInitialize(c) /\ calls[c].res # ErrRes("open.error"))

\* C25.  A read never fails because of a cache write: a call of
\* CachedHistoricalWeatherAPI whose get missed, whose fetch function
\* returned and whose set then failed returns the value fetched.
ReadSurvivesFailedWrite ==
    \A c \in Callers :
        ( /\ calls[c].op = "CachedHistoricalWeatherAPI"
          /\ calls[c].pc = "done"
          /\ calls[c].setFailed ) => calls[c].res = Value(calls[c].fetched)

====
